---- MODULE Spec2Model ----
(***************************************************************************)
(* Model of the request chunk writer of rag/openai_helpers.py:             *)
(* write_requests_to_jsonl, write_request_chunks, create_file_path and the *)
(* request constructors.  A string is a sequence of characters; the        *)
(* custom_id field of a serialized request is kept as one element, the     *)
(* pair <<prefix, index>>.  The file system is a function from paths to    *)
(* the sequence of lines each file holds.  open() and write() may raise    *)
(* IOError at any call.                                                    *)
(***************************************************************************)
EXTENDS Integers, Sequences, FiniteSets, TLC

\* ---- bounds of the model ----
MaxLen == 3          \* longest input list
MaxPrompt == 2       \* longest prompt, in characters
MaxReq == 3          \* largest max_requests tried
MaxBytes == 7        \* largest max_file_size_bytes tried
MaxFiles == MaxLen + 3   \* cap on file_count (the outer loop can run forever)

VARIABLES
    data,                 \* argument: the list of inputs
    base_output_path,     \* argument: directory or file path
    max_requests,         \* argument
    max_file_size_bytes,  \* argument
    create_request_fn,    \* argument create_request: which constructor is passed
    requests,             \* pending serialized requests (line 184, 196)
    file_count,           \* line 182, 199
    total_written,        \* line 183, 195
    current_filename,     \* line 187
    files,                \* the file system: path -> lines written
    current_size,         \* line 191, 153
    requests_written,     \* line 140, 154
    pos,                  \* position of the for loop of line 141 in requests
    pc,                   \* control point
    failed,               \* the except branch of line 200 was taken
    reported              \* the total printed at line 204 (-1: not yet)

vars == <<data, base_output_path, max_requests, max_file_size_bytes,
          create_request_fn, requests,
          file_count, total_written, current_filename, files, current_size,
          requests_written, pos, pc, failed, reported>>

args == <<data, base_output_path, max_requests, max_file_size_bytes,
          create_request_fn>>

\* ---- inputs ----
Chars(n) == [i \in 1..n |-> "x"]
Prompts == {Chars(n) : n \in 0..MaxPrompt}
DataLists == UNION {[1..n -> Prompts] : n \in 0..MaxLen}

batch_request_file == "batch"
DirPath == <<"outdir">>
FilePath == <<"requests", ".jsonl">>
BasePaths == {DirPath, FilePath}

\* os.path.isdir / os.path.splitext on the two base paths tried
isdir(base_path) == base_path = DirPath
splitext(base_path) == [name |-> base_path[1], ext |-> base_path[2]]

create_file_path(base_path, filename, fc) ==
    IF isdir(base_path)
    THEN <<base_path[1], "/", filename, "_", fc, ".jsonl">>
    ELSE <<splitext(base_path).name, "_", fc, splitext(base_path).ext>>

\* the serialized request: the custom_id, then the content
create_chat_completion_request(prompt, index) ==
    <<<<"prompt_", index>>>> \o prompt

create_embedding_request(text, index) ==
    <<<<"embedding_", index>>>> \o text

RequestFns == {"create_chat_completion_request", "create_embedding_request"}

create_request(input_data, i) ==
    IF create_request_fn = "create_chat_completion_request"
    THEN create_chat_completion_request(input_data, i)
    ELSE create_embedding_request(input_data, i)

\* enumerate(data) is 0-based
SerializeAllOneBased(d) == [i \in 1..Len(d) |-> create_request(d[i], i)]
SerializeAll(d) == [i \in 1..Len(d) |-> create_request(d[i], i - 1)]

\* ---- the conditions and updates of the two loops ----
LoopCondAlways(reqs) == TRUE
LoopCond(reqs) == reqs # <<>>

CountLimitReachedLate(rw, mr) == rw > mr
CountLimitReached(rw, mr) == rw >= mr

SizeLimitReachedBefore(cs, sz, mx) == cs > mx
SizeLimitReachedAtEqual(cs, sz, mx) == cs + sz >= mx
SizeLimitReached(cs, sz, mx) == cs + sz > mx

RemainingSkipOne(reqs, rw) == SubSeq(reqs, rw + 2, Len(reqs))
Remaining(reqs, rw) == SubSeq(reqs, rw + 1, Len(reqs))

NextFileCountByTwo(fc) == fc + 2
NextFileCount(fc) == fc + 1

\* the except branch ends with break: control goes to line 204
OnIOErrorContinue == "while"
OnIOError == "report"

\* ---- initial state: lines 182-184 ----
Init ==
    /\ data \in DataLists
    /\ base_output_path \in BasePaths
    /\ max_requests \in 0..MaxReq
    /\ max_file_size_bytes \in 0..MaxBytes
    /\ create_request_fn \in RequestFns
    /\ file_count = 1
    /\ total_written = 0
    /\ requests = SerializeAll(data)
    /\ current_filename = <<>>
    /\ files = <<>>
    /\ current_size = 0
    /\ requests_written = 0
    /\ pos = 1
    /\ pc = "while"
    /\ failed = FALSE
    /\ reported = -1

\* ---- write_requests_to_jsonl ----
\* line 186-187: the loop condition holds, the file name is computed
WhileEnter ==
    /\ pc = "while"
    /\ LoopCond(requests)
    /\ file_count <= MaxFiles
    /\ current_filename' = create_file_path(base_output_path, batch_request_file, file_count)
    /\ pc' = "open"
    /\ UNCHANGED <<args, requests, file_count, total_written, files,
                   current_size, requests_written, pos, failed, reported>>

\* line 186: the loop condition fails
WhileExit ==
    /\ pc = "while"
    /\ ~LoopCond(requests)
    /\ pc' = "report"
    /\ UNCHANGED <<args, requests, file_count, total_written, current_filename,
                   files, current_size, requests_written, pos, failed, reported>>

\* line 190-191, 140: open(..., "w") creates or truncates the file
OpenOk ==
    /\ pc = "open"
    /\ files' = [p \in DOMAIN files \cup {current_filename} |->
                    IF p = current_filename THEN <<>> ELSE files[p]]
    /\ current_size' = 0
    /\ requests_written' = 0
    /\ pos' = 1
    /\ pc' = "for"
    /\ UNCHANGED <<args, requests, file_count, total_written, current_filename,
                   failed, reported>>

\* line 190 raises IOError: lines 200-202
OpenFail ==
    /\ pc = "open"
    /\ failed' = TRUE
    /\ pc' = OnIOError
    /\ UNCHANGED <<args, requests, file_count, total_written, current_filename,
                   files, current_size, requests_written, pos, reported>>

\* ---- write_request_chunks ----
json_request == requests[pos] \o <<"\n">>
json_request_size == Len(json_request)

\* line 141: the list is exhausted, line 156 returns
ForExhausted ==
    /\ pc = "for"
    /\ pos > Len(requests)
    /\ pc' = "after"
    /\ UNCHANGED <<args, requests, file_count, total_written, current_filename,
                   files, current_size, requests_written, pos, failed, reported>>

\* line 142-143
ForBreakCount ==
    /\ pc = "for"
    /\ pos <= Len(requests)
    /\ CountLimitReached(requests_written, max_requests)
    /\ pc' = "after"
    /\ UNCHANGED <<args, requests, file_count, total_written, current_filename,
                   files, current_size, requests_written, pos, failed, reported>>

\* line 145-150
ForBreakSize ==
    /\ pc = "for"
    /\ pos <= Len(requests)
    /\ ~CountLimitReached(requests_written, max_requests)
    /\ SizeLimitReached(current_size, json_request_size, max_file_size_bytes)
    /\ pc' = "after"
    /\ UNCHANGED <<args, requests, file_count, total_written, current_filename,
                   files, current_size, requests_written, pos, failed, reported>>

\* line 152-154
ForWrite ==
    /\ pc = "for"
    /\ pos <= Len(requests)
    /\ ~CountLimitReached(requests_written, max_requests)
    /\ ~SizeLimitReached(current_size, json_request_size, max_file_size_bytes)
    /\ files' = [files EXCEPT ![current_filename] = Append(@, json_request)]
    /\ current_size' = current_size + json_request_size
    /\ requests_written' = requests_written + 1
    /\ pos' = pos + 1
    /\ UNCHANGED <<args, requests, file_count, total_written, current_filename,
                   pc, failed, reported>>

\* line 152 raises IOError: the with block closes the file, lines 200-202
ForWriteFail ==
    /\ pc = "for"
    /\ pos <= Len(requests)
    /\ ~CountLimitReached(requests_written, max_requests)
    /\ ~SizeLimitReached(current_size, json_request_size, max_file_size_bytes)
    /\ failed' = TRUE
    /\ pc' = OnIOError
    /\ UNCHANGED <<args, requests, file_count, total_written, current_filename,
                   files, current_size, requests_written, pos, reported>>

\* line 195-199
AfterChunk ==
    /\ pc = "after"
    /\ total_written' = total_written + requests_written
    /\ requests' = Remaining(requests, requests_written)
    /\ file_count' = NextFileCount(file_count)
    /\ pc' = "while"
    /\ UNCHANGED <<args, current_filename, files, current_size,
                   requests_written, pos, failed, reported>>

\* line 204
Report ==
    /\ pc = "report"
    /\ reported' = total_written
    /\ pc' = "done"
    /\ UNCHANGED <<args, requests, file_count, total_written, current_filename,
                   files, current_size, requests_written, pos, failed>>

Next ==
    \/ WhileEnter
    \/ WhileExit
    \/ OpenOk
    \/ OpenFail
    \/ ForExhausted
    \/ ForBreakCount
    \/ ForBreakSize
    \/ ForWrite
    \/ ForWriteFail
    \/ AfterChunk
    \/ Report

Spec == Init /\ [][Next]_vars

\* the program keeps running while it has a step to take
LiveSpec == Init /\ [][Next]_vars /\ WF_vars(Next)

TypeOK ==
    /\ pc \in {"while", "open", "for", "after", "report", "done"}
    /\ file_count \in 1..(MaxFiles + 2)
    /\ total_written \in 0..MaxLen
    /\ failed \in BOOLEAN

\* ---- vocabulary of the properties ----
\* the input list in serialized-line form
InputLines == [i \in 1..Len(data) |-> create_request(data[i], i - 1) \o <<"\n">>]

NumFiles == Cardinality(DOMAIN files)
Container(i) == files[create_file_path(base_output_path, batch_request_file, i)]

RECURSIVE ConcatUpTo(_)
ConcatUpTo(k) == IF k = 0 THEN <<>> ELSE ConcatUpTo(k - 1) \o Container(k)
AllLines == ConcatUpTo(NumFiles)

RECURSIVE ByteSize(_)
ByteSize(lines) == IF lines = <<>> THEN 0 ELSE Len(Head(lines)) + ByteSize(Tail(lines))

IsPrefix(s, t) == Len(s) <= Len(t) /\ SubSeq(t, 1, Len(s)) = s

\* the file_count cap is reached only by iterations that consume nothing
CapOnlyWithoutProgress ==
    (pc = "while" /\ file_count > MaxFiles) => (requests_written = 0 /\ requests # <<>>)

\* C1: at every point the concatenation, in container order, of the lines
\* written is a prefix of the serialized input list, and when the run ends
\* without an I/O failure it is the whole list.
C1_ConcatIsInput ==
    /\ IsPrefix(AllLines, InputLines)
    /\ (pc = "done" /\ ~failed) => AllLines = InputLines

C1_Witness ==
    /\ pc = "done" /\ ~failed
    /\ Len(data) = MaxLen /\ NumFiles >= 2
    /\ AllLines = InputLines

\* C2: when a chunk has been filled and the first pending request alone
\* (with its newline) exceeds max_file_size_bytes, the container holds
\* exactly that request.
C2_OversizedWrittenAlone ==
    (pc = "after" /\ requests # <<>> /\ Len(requests[1]) + 1 > max_file_size_bytes)
        => files[current_filename] = <<requests[1] \o <<"\n">>>>

C4_SizeLimit ==
    \A p \in DOMAIN files :
        \/ ByteSize(files[p]) <= max_file_size_bytes
        \/ Len(files[p]) = 1 /\ Len(files[p][1]) > max_file_size_bytes

C4_Witness ==
    /\ pc = "done" /\ ~failed /\ NumFiles >= 2
    /\ Len(Container(1)) = 2
    /\ ByteSize(Container(1)) = max_file_size_bytes
    /\ max_requests > 2

\* C5: every container holds at most max_requests requests.
C5_CountLimit ==
    \A p \in DOMAIN files : Len(files[p]) <= max_requests

C5_Witness ==
    /\ pc = "done" /\ ~failed /\ NumFiles >= 2
    /\ Len(Container(1)) = max_requests
    /\ ByteSize(InputLines) <= max_file_size_bytes

\* C6: once an I/O error has occurred no file is created or written and the
\* counter does not move; at every step the files other than the one
\* currently open keep their contents.
C6_StopsOnIOError ==
    [][/\ failed => (failed' /\ files' = files /\ file_count' = file_count)
       /\ \A p \in DOMAIN files :
             p # current_filename' => (p \in DOMAIN files' /\ files'[p] = files[p])]_vars

C6_Witness ==
    /\ pc = "done" /\ failed
    /\ NumFiles >= 2
    /\ Len(AllLines) >= 2
    /\ Len(AllLines) < Len(data)

\* C7: the total reported at the end is the number of lines written across
\* all containers, in every run.
C7_TotalIsLinesWritten ==
    pc = "done" => reported = Len(AllLines)

\* C8: the containers created are numbered 1..k without gap or reuse, and
\* file_count is one more than the number of containers completed.
C8_Numbering ==
    /\ DOMAIN files =
         {create_file_path(base_output_path, batch_request_file, i) : i \in 1..NumFiles}
    /\ NumFiles \in {file_count - 1, file_count}
    /\ (pc \in {"for", "after"}) => NumFiles = file_count
    /\ (pc = "while") => NumFiles = file_count - 1

C8_Witness ==
    /\ pc = "done" /\ ~failed /\ NumFiles = 2 /\ file_count = 3
    /\ Len(Container(1)) = 2 /\ Len(Container(2)) = 1

\* C9: with an empty input list no container is opened, no error is
\* signalled and the total reported is 0.
C9_EmptyInput ==
    data = <<>> =>
        /\ files = <<>>
        /\ ~failed
        /\ pc \in {"while", "report", "done"}
        /\ pc = "done" => reported = 0

C9_Witness == data = <<>> /\ pc = "done"

\* C10: a container other than the last holds max_requests requests or the
\* next pending line would bring it strictly above max_file_size_bytes;
\* when the whole input fits the size limit and max_requests = m >= 1, a
\* finished run has ceil(n/m) containers, all of m requests but the last.
CeilDiv(n, m) == (n + m - 1) \div m

C10_GreedyMaximal ==
    /\ \A i \in 1..(NumFiles - 1) :
          LET consumed == Len(ConcatUpTo(i)) IN
          /\ consumed < Len(InputLines)
          /\ \/ Len(Container(i)) = max_requests
             \/ ByteSize(Container(i)) + Len(InputLines[consumed + 1]) > max_file_size_bytes
    /\ (pc = "done" /\ ~failed /\ max_requests >= 1
           /\ ByteSize(InputLines) <= max_file_size_bytes)
        => /\ NumFiles = CeilDiv(Len(data), max_requests)
           /\ \A i \in 1..(NumFiles - 1) : Len(Container(i)) = max_requests

C10_Witness ==
    /\ pc = "done" /\ ~failed
    /\ Len(data) = 3 /\ max_requests = 2
    /\ ByteSize(InputLines) <= max_file_size_bytes
    /\ NumFiles = 2 /\ Len(Container(1)) = 2 /\ Len(Container(2)) = 1

\* a request that brings the size exactly to the limit is accepted
C10_ExactFitReached ==
    /\ pc = "done" /\ ~failed /\ NumFiles >= 2
    /\ Len(Container(1)) >= 2
    /\ Len(Container(1)) < max_requests
    /\ ByteSize(Container(1)) = max_file_size_bytes

\* C11: every container created holds at least one request, so the number
\* of containers never exceeds the number of input requests.
C11_NoEmptyContainer ==
    (pc \in {"while", "report", "done"} /\ ~failed) =>
        /\ \A p \in DOMAIN files : Len(files[p]) >= 1
        /\ NumFiles <= Len(data)

\* C12: the line at position j (1-based) of the whole output carries index
\* j - 1 in its custom_id, whichever container holds it; the pending
\* requests already carry the index of their input position; the custom_ids
\* written during one call are pairwise distinct.
CustomId(request) == request[1]
IdPrefix == IF create_request_fn = "create_chat_completion_request"
            THEN "prompt_" ELSE "embedding_"

C12_IdIsInputPosition ==
    /\ \A j \in 1..Len(AllLines) : CustomId(AllLines[j]) = <<IdPrefix, j - 1>>
    /\ \A j \in 1..Len(requests) :
          CustomId(requests[j]) = <<IdPrefix, Len(data) - Len(requests) + j - 1>>
    /\ \A j, k \in 1..Len(AllLines) :
          j # k => CustomId(AllLines[j]) # CustomId(AllLines[k])

C12_Witness ==
    /\ pc = "done" /\ ~failed
    /\ Len(data) = MaxLen /\ NumFiles >= 2
    /\ Len(Container(1)) >= 1 /\ Len(Container(2)) >= 1
    /\ CustomId(Container(2)[1]) = <<IdPrefix, Len(Container(1))>>
    /\ create_request_fn = "create_embedding_request"
====
